---- MODULE Spec2Model ----
(***************************************************************************)
(* Model of the transform pipeline engine of dgp/lib/transform.py:         *)
(* TransformChain (ordering / reordering / apply) and DataWrapper (cache   *)
(* of per-chain results, default chain), plus Transform construction and   *)
(* invocation.                                                             *)
(***************************************************************************)
EXTENDS Integers, Sequences, FiniteSets, TLC

\* ---------------------------------------------------------------- bounds
\* the chain on its own: transforms at a time, ids issued
MaxLen == 3
MaxIds == 3
\* the wrapper with its chains: chains, transforms per chain, ids issued
NumChains == 2
MaxChainLen == 2
MaxIssued == 2
MaxTable == 2
\* transforms on their own: instances constructed
MaxConstructed == 1
\* the main window: flights of the project
MaxFlights == 3
\* the line selection plot: groups of regions, plots (one region of each group
\* per plot), region values
MaxGroups == 2
PlotRows == 2
MaxRegion == 1
\* _update_timer.setInterval(100)
IntervalMs == 100

ChainIds == 1..NumChains
TransformIds == 1..MaxIds
Tables == 1..MaxTable
\* target positions offered to reorder: the indices of a list of MaxLen entries
\* (past the end of a shorter one)
Positions == 0..(MaxLen - 1)
WrapperPositions == 0..(MaxChainLen - 1)
\* extra keyword argument handed to apply (0: none given)
Biases == {0, 1}

\* ---------------------------------------------------------------- values
\* A call's outcome: a value, or the exception that propagated.
Val(v) == [err |-> "", val |-> v]
Err(e) == [err |-> e, val |-> 0]
NoneRes == Err("None")

\* The callables put into chains: two that compute, one that raises.
Callables == {"scale", "offset", "raises"}
\* of these, the ones that change their argument and return it (df += 1)
InPlace == {"offset"}
NotCallable == "notcallable"

\* one transform invocation  transform(df, **kwargs)
CallTransform(kind, df, bias) ==
    CASE kind = "scale" -> Val(2 * df + bias)
      [] kind = "offset" -> Val(df + 1 + bias)
      [] OTHER -> Err("Raised")

VARIABLES
    nextid,       \* number of ids gen_uuid has issued for transforms
    transforms,   \* transforms[c]: TransformChain._transforms (id -> callable)
    ordering,     \* ordering[c]:   TransformChain._ordering
    df,           \* DataWrapper.df
    modified,     \* DataWrapper.modified (chain uid -> result)
    chains,       \* DataWrapper._transform_chains (its key set)
    defaultchain, \* DataWrapper._defaultchain (0: None)
    first,        \* history: first chain ever passed to applychain (0: none)
    lastres,      \* history: lastres[c] value most recently returned by applychain(c)
    removed,      \* history: removechain has been called
    ret,          \* outcome of the last chain or wrapper call
    registry,     \* transform_class_dict (class id -> class)
    inst,         \* the Transform instance constructed last, with its keywords
    xret,         \* the last invocation of inst: its arguments and outcome
    lastreg,      \* history: class id -> the class a decorator was last given for it
    found,        \* outcome of the last get_class_from_id call
    open_tabs,    \* MainWindow._open_tabs (its key set: flight uids with a tab)
    current,      \* flight uid of the tab widget's current tab (0: no tab)
    gevent,       \* the last main window slot that ran, its item, the tab it called
    selections,   \* PqtLineSelectPlot._selections: group id -> region of each of its items
    updating,     \* PqtLineSelectPlot._updating
    line_update,  \* PqtLineSelectPlot._line_update (NoLfr: None)
    timer,        \* _update_timer: ms since it was started, -1 when it is not active
    since,        \* history: ms since update was last called by the toolkit, capped
    emits,        \* history: 'modify' LineUpdates emitted since that call
    lastemit,     \* the LineUpdate line_changed emitted last
    lastupd       \* history: the item last passed to update, with its region then

vars == <<nextid, transforms, ordering, df, modified, chains, defaultchain,
          first, lastres, removed, ret, registry, inst, xret, lastreg, found,
          open_tabs, current, gevent, selections, updating, line_update, timer,
          since, emits, lastemit, lastupd>>

chainvars == <<nextid, transforms, ordering>>
wrappervars == <<df, modified, chains, defaultchain, first, lastres, removed>>
xfvars == <<registry, inst, xret, lastreg, found>>
mainvars == <<open_tabs, current, gevent>>
plotvars == <<selections, updating, line_update, timer, since, emits, lastemit,
              lastupd>>
guivars == <<mainvars, plotvars>>
enginevars == <<chainvars, wrappervars, ret, xfvars>>

\* ---------------------------------------------------------------- helpers
\* the record of a call: the method, the chain it went to (or named), its
\* arguments (an id or a table, the extra keyword, a position map), what it
\* returned or raised, the order reorder returned, the content the table
\* passed to apply has after the call, and the object given to addtransform
\* with the transform addtransform returned beside the id
NoMap == [k \in {} |-> 0]
Ret(op, chain, res) ==
    [op |-> op, chain |-> chain, arg |-> 0, bias |-> 0, map |-> NoMap,
     order |-> << >>, after |-> 0, given |-> "", xf |-> "", res |-> res]

Range(s) == {s[i] : i \in DOMAIN s}

\* dict with key k deleted
DelKey(f, k) == [x \in DOMAIN f \ {k} |-> f[x]]

\* dict with f[k] = v stored
SetKey(f, k, v) == [x \in DOMAIN f \cup {k} |-> IF x = k THEN v ELSE f[x]]

\* list.remove(x): the first occurrence is deleted
ListRemove(s, x) ==
    LET i == CHOOSE j \in DOMAIN s : s[j] = x /\ \A h \in 1..(j - 1) : s[h] # x
    IN  SubSeq(s, 1, i - 1) \o SubSeq(s, i + 1, Len(s))

\* list.insert(i, x) with i a 0-based index, clamped as Python does
ListInsert(s, i, x) ==
    LET j == IF i < 0 THEN (IF i + Len(s) < 0 THEN 0 ELSE i + Len(s))
             ELSE IF i > Len(s) THEN Len(s) ELSE i
    IN  SubSeq(s, 1, j) \o <<x>> \o SubSeq(s, j + 1, Len(s))

\* an id generator that hands out the smallest id no chain holds at present
gen_uuid_free ==
    LET held == UNION {DOMAIN transforms[c] : c \in ChainIds}
    IN  CHOOSE n \in 1..(nextid + 1) : n \notin held /\ \A m \in 1..(n - 1) : m \in held

\* gen_uuid: a value never issued before
gen_uuid == nextid + 1

\* ---------------------------------------------------------------- TransformChain
\* len(chain)
ChainLen(c) == Cardinality(DOMAIN transforms[c])

\* dedup_dict: of the keys sharing a target position the smallest survives
dedup_dict(d) ==
    LET keep == {k \in DOMAIN d : \A h \in DOMAIN d : d[h] = d[k] => k <= h}
    IN  [k \in keep |-> d[k]]

\* sorted(d.keys(), key=d.__getitem__)
RECURSIVE SortedKeys(_)
SortedKeys(d) ==
    IF DOMAIN d = {} THEN << >>
    ELSE LET k == CHOOSE x \in DOMAIN d :
                      \A y \in DOMAIN d : d[x] < d[y] \/ (d[x] = d[y] /\ x <= y)
         IN  <<k>> \o SortedKeys([y \in DOMAIN d \ {k} |-> d[y]])

\* the loop of reorder with the two list calls swapped: insert, then remove
RECURSIVE ReorderLoopInsertFirst(_, _, _, _)
ReorderLoopInsertFirst(ord, d, order, i) ==
    IF i > Len(order) THEN [ordering |-> ord, err |-> ""]
    ELSE IF order[i] \notin Range(ord) THEN [ordering |-> ord, err |-> "ValueError"]
    ELSE ReorderLoopInsertFirst(
             ListRemove(ListInsert(ord, d[order[i]], order[i]), order[i]),
             d, order, i + 1)

\* the loop of reorder over `order`, from entry i on: the list as it is left,
\* and the error that stopped the loop
RECURSIVE ReorderLoop(_, _, _, _)
ReorderLoop(ord, d, order, i) ==
    IF i > Len(order) THEN [ordering |-> ord, err |-> ""]
    ELSE IF order[i] \notin Range(ord) THEN [ordering |-> ord, err |-> "ValueError"]
    ELSE ReorderLoop(ListInsert(ListRemove(ord, order[i]), d[order[i]], order[i]),
                     d, order, i + 1)

\* reorder that sorts the keys of its argument by their position in the
\* deduplicated map: a key the pre-step dropped has no position there
ReorderResultAllKeys(ord, reordering) ==
    LET d == dedup_dict(reordering)
    IN  IF DOMAIN reordering # DOMAIN d
        THEN [ordering |-> ord, err |-> "KeyError"]
        ELSE ReorderLoop(ord, d, SortedKeys(d), 1)

ReorderResult(ord, reordering) ==
    LET d == dedup_dict(reordering)
    IN  ReorderLoop(ord, d, SortedKeys(d), 1)

\* the loop of apply over the order sequence, from entry i on
RECURSIVE ApplyLoop(_, _, _, _, _)
ApplyLoop(xf, ord, i, df_cp, bias) ==
    IF i > Len(ord) THEN Val(df_cp)
    ELSE IF ord[i] \notin DOMAIN xf THEN Err("KeyError")
    ELSE LET r == CallTransform(xf[ord[i]], df_cp, bias)
         IN  IF r.err # "" THEN r ELSE ApplyLoop(xf, ord, i + 1, r.val, bias)

\* apply that walks the mapping instead of the order sequence
ChainApplyByKeys(c, table, bias) ==
    ApplyLoop(transforms[c], SortedKeys([k \in DOMAIN transforms[c] |-> k]), 1,
              table, bias)

\* TransformChain.apply(df, **kwargs)
ChainApply(c, table, bias) == ApplyLoop(transforms[c], ordering[c], 1, table, bias)

\* apply that works on the table it was given: df_cp = df
DeepCopyAlias(obj) == obj

\* deepcopy(df): a new object, "copy", whatever object it is given
DeepCopy(obj) == "copy"

\* the content of the caller's table ("input") while the loop of apply runs from
\* entry i on: obj is the object df_cp names, inp the content of the caller's
\* table; a transform in InPlace changes the object it is given and returns it,
\* any other returns a new object
RECURSIVE InputAfterLoop(_, _, _, _, _, _)
InputAfterLoop(xf, ord, i, obj, inp, bias) ==
    IF i > Len(ord) \/ obj # "input" THEN inp
    ELSE IF ord[i] \notin DOMAIN xf THEN inp
    ELSE LET r == CallTransform(xf[ord[i]], inp, bias)
         IN  IF r.err = "" /\ xf[ord[i]] \in InPlace
             THEN InputAfterLoop(xf, ord, i + 1, obj, r.val, bias)
             ELSE inp

\* the content of the table passed to apply once apply has returned or raised
ChainApplyInput(c, table, bias) ==
    InputAfterLoop(transforms[c], ordering[c], 1, DeepCopy("input"), table, bias)

\* addtransform that puts the new id at the front of the order sequence
AddTransformPrepends(c, kind) ==
    /\ IF kind \in Callables
       THEN /\ nextid' = gen_uuid
            /\ transforms' = [transforms EXCEPT ![c] = SetKey(@, gen_uuid, kind)]
            /\ ordering' = [ordering EXCEPT ![c] = <<gen_uuid>> \o @]
            /\ ret' = [Ret("addtransform", c, Val(gen_uuid))
                         EXCEPT !.given = kind, !.xf = transforms'[c][gen_uuid]]
       ELSE /\ UNCHANGED chainvars
            /\ ret' = [Ret("addtransform", c, NoneRes) EXCEPT !.given = kind]
    /\ UNCHANGED <<wrappervars, xfvars, guivars>>

\* addtransform(transform)
AddTransform(c, kind) ==
    /\ IF kind \in Callables
       THEN /\ nextid' = gen_uuid
            /\ transforms' = [transforms EXCEPT ![c] = SetKey(@, gen_uuid, kind)]
            /\ ordering' = [ordering EXCEPT ![c] = Append(@, gen_uuid)]
            /\ ret' = [Ret("addtransform", c, Val(gen_uuid))
                         EXCEPT !.given = kind, !.xf = transforms'[c][gen_uuid]]
       ELSE /\ UNCHANGED chainvars
            /\ ret' = [Ret("addtransform", c, NoneRes) EXCEPT !.given = kind]
    /\ UNCHANGED <<wrappervars, xfvars, guivars>>

\* removetransform that forgets the order sequence
RemoveTransformKeepsOrder(c, uid) ==
    /\ IF uid \notin DOMAIN transforms[c]
       THEN /\ UNCHANGED chainvars
            /\ ret' = [Ret("removetransform", c, Err("KeyError")) EXCEPT !.arg = uid]
       ELSE /\ transforms' = [transforms EXCEPT ![c] = DelKey(@, uid)]
            /\ ret' = [Ret("removetransform", c, NoneRes) EXCEPT !.arg = uid]
            /\ UNCHANGED <<nextid, ordering>>
    /\ UNCHANGED <<wrappervars, xfvars, guivars>>

\* removetransform that drops the last entry of the order sequence
RemoveTransformDropsLast(c, uid) ==
    /\ IF uid \notin DOMAIN transforms[c]
       THEN /\ UNCHANGED chainvars
            /\ ret' = [Ret("removetransform", c, Err("KeyError")) EXCEPT !.arg = uid]
       ELSE /\ transforms' = [transforms EXCEPT ![c] = DelKey(@, uid)]
            /\ ordering' = [ordering EXCEPT ![c] = SubSeq(@, 1, Len(@) - 1)]
            /\ ret' = [Ret("removetransform", c, NoneRes) EXCEPT !.arg = uid]
            /\ UNCHANGED nextid
    /\ UNCHANGED <<wrappervars, xfvars, guivars>>

\* removetransform(uid)
RemoveTransform(c, uid) ==
    /\ IF uid \notin DOMAIN transforms[c]
       THEN /\ UNCHANGED chainvars
            /\ ret' = [Ret("removetransform", c, Err("KeyError")) EXCEPT !.arg = uid]
       ELSE /\ transforms' = [transforms EXCEPT ![c] = DelKey(@, uid)]
            /\ IF uid \in Range(ordering[c])
               THEN /\ ordering' = [ordering EXCEPT ![c] = ListRemove(@, uid)]
                    /\ ret' = [Ret("removetransform", c, NoneRes) EXCEPT !.arg = uid]
               ELSE /\ UNCHANGED ordering
                    /\ ret' = [Ret("removetransform", c, Err("ValueError"))
                                 EXCEPT !.arg = uid]
            /\ UNCHANGED nextid
    /\ UNCHANGED <<wrappervars, xfvars, guivars>>

Reorder(c, reordering) ==
    LET r == ReorderResult(ordering[c], reordering)
    IN  /\ ordering' = [ordering EXCEPT ![c] = r.ordering]
        /\ ret' = IF r.err = ""
                  THEN [Ret("reorder", c, Val(0)) EXCEPT !.map = reordering,
                                                         !.order = r.ordering]
                  ELSE [Ret("reorder", c, Err(r.err)) EXCEPT !.map = reordering]
        /\ UNCHANGED <<nextid, transforms>>
        /\ UNCHANGED <<wrappervars, xfvars, guivars>>

Apply(c, table, bias) ==
    /\ ret' = [Ret("apply", c, ChainApply(c, table, bias))
                 EXCEPT !.arg = table, !.bias = bias,
                        !.after = ChainApplyInput(c, table, bias)]
    /\ UNCHANGED <<chainvars, wrappervars, xfvars, guivars>>

\* ---------------------------------------------------------------- DataWrapper
\* data that applies the default chain anew on every read
DataReapplies ==
    IF defaultchain # 0 THEN ChainApply(defaultchain, df, 0) ELSE Val(df)

\* the property DataWrapper.data: a property takes no argument, reapply is False
Data ==
    IF defaultchain # 0
    THEN IF defaultchain \in DOMAIN modified
         THEN Val(modified[defaultchain])
         ELSE Err("KeyError")
    ELSE Val(df)

\* applychain that feeds the chain its own last result
ApplyChainTableCached(c) == IF c \in DOMAIN modified THEN modified[c] ELSE df

\* the table applychain hands to the chain: self.df
ApplyChainTable(c) == df

\* registration that makes every newly registered chain the default
NewDefaultAlways(c) == IF c \notin chains THEN c ELSE defaultchain

\* registration that makes a new chain the default also when the default chain
\* is no longer registered
NewDefaultPromotes(c) ==
    IF c \notin chains /\ (defaultchain = 0 \/ defaultchain \notin chains)
    THEN c ELSE defaultchain

\* _defaultchain after applychain(tc): a chain new to the wrapper becomes the
\* default if there is none
NewDefault(c) == IF c \notin chains /\ defaultchain = 0 THEN c ELSE defaultchain

\* applychain that keeps the result as the wrapper's table too
ApplyChainStoresInDf(c) ==
    LET r == ChainApply(c, ApplyChainTable(c), 0)
    IN  /\ chains' = chains \cup {c}
        /\ defaultchain' = NewDefault(c)
        /\ IF r.err = ""
           THEN /\ modified' = SetKey(modified, c, r.val)
                /\ lastres' = [lastres EXCEPT ![c] = r]
                /\ df' = r.val
           ELSE UNCHANGED <<modified, lastres, df>>
        /\ first' = IF first = 0 THEN c ELSE first
        /\ ret' = Ret("applychain", c, r)
        /\ UNCHANGED removed
        /\ UNCHANGED <<chainvars, xfvars, guivars>>

\* applychain(tc) with tc a TransformChain
ApplyChain(c) ==
    LET r == ChainApply(c, ApplyChainTable(c), 0)
    IN  /\ chains' = chains \cup {c}
        /\ defaultchain' = NewDefault(c)
        /\ df' = ChainApplyInput(c, df, 0)
        /\ IF r.err = ""
           THEN /\ modified' = SetKey(modified, c, r.val)
                /\ lastres' = [lastres EXCEPT ![c] = r]
           ELSE UNCHANGED <<modified, lastres>>
        /\ first' = IF first = 0 THEN c ELSE first
        /\ ret' = Ret("applychain", c, r)
        /\ UNCHANGED removed
        /\ UNCHANGED <<chainvars, xfvars, guivars>>

\* applychain(x) with x no TransformChain: building the message of the
\* TypeError fails, '({typ})'.format(type(tc)) has no keyword typ
ApplyChainNoChain ==
    /\ ret' = Ret("applychain", 0, Err("KeyError"))
    /\ UNCHANGED <<wrappervars, chainvars, xfvars, guivars>>

\* removechain that forgets the cached result
RemoveChainKeepsCache(uid) ==
    /\ IF uid \notin chains
       THEN /\ UNCHANGED chains
            /\ ret' = Ret("removechain", uid, Err("KeyError"))
       ELSE /\ chains' = chains \ {uid}
            /\ ret' = Ret("removechain", uid, NoneRes)
    /\ removed' = TRUE
    /\ UNCHANGED <<df, modified, defaultchain, first, lastres>>
    /\ UNCHANGED <<chainvars, xfvars, guivars>>

\* removechain(uid)
RemoveChain(uid) ==
    /\ IF uid \notin chains
       THEN /\ UNCHANGED <<chains, modified>>
            /\ ret' = Ret("removechain", uid, Err("KeyError"))
       ELSE /\ chains' = chains \ {uid}
            /\ IF uid \in DOMAIN modified
               THEN /\ modified' = DelKey(modified, uid)
                    /\ ret' = Ret("removechain", uid, NoneRes)
               ELSE /\ UNCHANGED modified
                    /\ ret' = Ret("removechain", uid, Err("KeyError"))
    /\ removed' = TRUE
    /\ UNCHANGED <<df, defaultchain, first, lastres>>
    /\ UNCHANGED <<chainvars, xfvars, guivars>>

ReadData ==
    /\ ret' = Ret("data", 0, Data)
    /\ UNCHANGED <<wrappervars, chainvars, xfvars, guivars>>

\* w.data(reapply=True): data is a property, so the attribute read runs the
\* getter with reapply False and the call is made on the table it returned,
\* which is not callable; the branch `if reapply` is never entered
ReadDataReapply ==
    /\ ret' = [Ret("data", 0, IF Data.err # "" THEN Data ELSE Err("TypeError"))
                 EXCEPT !.arg = 1]
    /\ UNCHANGED <<wrappervars, chainvars, xfvars, guivars>>

\* ---------------------------------------------------------------- Transform
\* names a transform's variables and a function's parameters may have
Names == {"a", "b"}
\* inspect's param.empty, and None
NoDefault == -1
None == 0
\* declared defaults, values bound at construction, values given at call time
Defaults == {NoDefault, 1}
BoundValues == {2}
CallValues == {3}

Params == [name : Names, dflt : Defaults]
\* the named parameters of a function after its data argument, in order
ParamSeqs ==
    {<< >>} \cup {<<p>> : p \in Params}
            \cup {s \in {<<p, q>> : p \in Params, q \in Params} : s[1].name # s[2].name}
\* keyword arguments in call order
KwSeqs(values) ==
    LET kw == [name : Names, val : values]
    IN  {<< >>} \cup {<<p>> : p \in kw}
                \cup {s \in {<<p, q>> : p \in kw, q \in kw} : s[1].name # s[2].name}

SeqNames(s) == {s[i].name : i \in DOMAIN s}
\* a keyword sequence as the dict Python builds of it
KwDict(kws) ==
    [n \in SeqNames(kws) |-> kws[CHOOSE i \in DOMAIN kws : kws[i].name = n].val]

\* the function that does the work, called as f(data, **keywords)
CallFunc(params, data, keywords) ==
    IF \/ DOMAIN keywords \ SeqNames(params) # {}
       \/ \E i \in DOMAIN params :
             params[i].dflt = NoDefault /\ params[i].name \notin DOMAIN keywords
    THEN [err |-> "TypeError", data |-> 0, kw |-> << >>]
    ELSE [err |-> "", data |-> data,
          kw |-> [n \in SeqNames(params) |->
                    IF n \in DOMAIN keywords THEN keywords[n]
                    ELSE params[CHOOSE i \in DOMAIN params : params[i].name = n].dflt]]

\* a transform class: whether it sets var_list, its var_list, the named
\* arguments inspect.getfullargspec(self.func).args holds, and the parameters
\* of the function that func ends up calling
\* createtransformclass(class_id)(func): func's parameters are keyword-only,
\* each becomes a variable; func of the class is class_func(self, *args, **kwargs)
createtransformclass(params) ==
    [declared |-> TRUE, var_list |-> params, argnames |-> {}, params |-> params]

\* a class written as a Transform subclass: func(self, df, ...) takes its
\* named parameters either as keyword-only or as ordinary arguments
TransformSubclass(declared, var_list, params, kwonly) ==
    [declared |-> declared, var_list |-> var_list,
     argnames |-> IF kwonly THEN {} ELSE SeqNames(params), params |-> params]

\* getattr(self, name, None)
GetAttr(attrs, name) == IF name \in DOMAIN attrs THEN attrs[name] ELSE None

\* Transform.__init__, first loop: the declared variables
RECURSIVE InitVars(_, _, _)
InitVars(attrs, var_list, i) ==
    IF i > Len(var_list) THEN attrs
    ELSE LET name == var_list[i].name
             val == IF var_list[i].dflt = NoDefault THEN None ELSE var_list[i].dflt
         IN  InitVars(IF GetAttr(attrs, name) = None THEN SetKey(attrs, name, val)
                      ELSE attrs,
                      var_list, i + 1)

\* Transform.__init__, second loop: the keywords; `name` is what the first loop
\* left in it, the last declared variable
RECURSIVE InitKwargs(_, _, _, _)
InitKwargs(attrs, name, kwargs, i) ==
    IF i > Len(kwargs) THEN attrs
    ELSE InitKwargs(IF GetAttr(attrs, name) # None
                    THEN SetKey(attrs, kwargs[i].name, kwargs[i].val)
                    ELSE attrs,
                    name, kwargs, i + 1)

NoAttrs == [n \in {} |-> None]

\* a constructor that tests `if not self.var_list`: an empty list fails too
XfInitFalsy(cls, kwargs) ==
    IF ~cls.declared \/ cls.var_list = << >>
    THEN [err |-> "ValueError", attrs |-> NoAttrs]
    ELSE LET bound == InitVars(NoAttrs, cls.var_list, 1)
         IN  [err |-> "",
              attrs |-> IF kwargs = << >> THEN bound
                        ELSE InitKwargs(bound, cls.var_list[Len(cls.var_list)].name,
                                        kwargs, 1)]

\* cls(**kwargs)
XfInit(cls, kwargs) ==
    IF ~cls.declared THEN [err |-> "ValueError", attrs |-> NoAttrs]
    ELSE IF cls.var_list = << >> /\ kwargs # << >>
    THEN [err |-> "UnboundLocalError", attrs |-> NoAttrs]
    ELSE LET bound == InitVars(NoAttrs, cls.var_list, 1)
         IN  [err |-> "",
              attrs |-> IF kwargs = << >> THEN bound
                        ELSE InitKwargs(bound, cls.var_list[Len(cls.var_list)].name,
                                        kwargs, 1)]

\* the keyword set Transform.__call__ builds
CallKeywords(cls, attrs, kwargs) ==
    LET bound == SeqNames(cls.var_list) \cap cls.argnames
    IN  [n \in bound \cup DOMAIN kwargs |->
            IF n \in DOMAIN kwargs THEN kwargs[n] ELSE attrs[n]]

\* instance(data, **kwargs)
XfCall(cls, attrs, data, kwargs) ==
    CallFunc(cls.params, data, CallKeywords(cls, attrs, kwargs))

NoClass == TransformSubclass(FALSE, << >>, << >>, FALSE)
NoInst == [state |-> "none", cls |-> NoClass, style |-> "", kwargs |-> << >>,
           err |-> "", attrs |-> NoAttrs, uid |-> 0]
NoCall == [called |-> FALSE, data |-> 0, kwargs |-> NoAttrs,
           res |-> [err |-> "None", data |-> 0, kw |-> << >>]]

\* @createtransformclass(class_id) on a function
RegisterFunction(class_id, params) ==
    /\ registry' = SetKey(registry, class_id,
                          [style |-> "function", cls |-> createtransformclass(params)])
    /\ lastreg' = SetKey(lastreg, class_id, createtransformclass(params))
    /\ UNCHANGED <<inst, xret, found>>
    /\ UNCHANGED <<chainvars, wrappervars, ret, guivars>>

\* a class decorator that keeps the class already registered under the id
RegisterClassKeepsFirst(class_id, cls) ==
    /\ registry' = IF class_id \in DOMAIN registry THEN registry
                   ELSE SetKey(registry, class_id, [style |-> "class", cls |-> cls])
    /\ lastreg' = SetKey(lastreg, class_id, cls)
    /\ UNCHANGED <<inst, xret, found>>
    /\ UNCHANGED <<chainvars, wrappervars, ret, guivars>>

\* @RegisterTransformClass(class_id) on a class
RegisterClass(class_id, cls) ==
    /\ registry' = SetKey(registry, class_id, [style |-> "class", cls |-> cls])
    /\ lastreg' = SetKey(lastreg, class_id, cls)
    /\ UNCHANGED <<inst, xret, found>>
    /\ UNCHANGED <<chainvars, wrappervars, ret, guivars>>

\* the outcome of a lookup that found nothing: dict.get returns None
NotFound == [found |-> FALSE, cls |-> NoClass]

\* RegisterTransformClass.get_class_from_id(class_id)
get_class_from_id(class_id) ==
    IF class_id \in DOMAIN registry
    THEN [found |-> TRUE, cls |-> registry[class_id].cls]
    ELSE NotFound

\* a call of get_class_from_id
Lookup(class_id) ==
    /\ found' = [name |-> class_id, res |-> get_class_from_id(class_id)]
    /\ UNCHANGED <<registry, inst, xret, lastreg>>
    /\ UNCHANGED <<chainvars, wrappervars, ret, guivars>>

\* RegisterTransformClass.get_class_from_id(class_id)(**kwargs); the instance
\* takes its uid first, so also when the constructor raises
Construct(class_id, kwargs) ==
    /\ class_id \in DOMAIN registry
    /\ LET cls == registry[class_id].cls
           r == XfInit(cls, kwargs)
       IN  inst' = [state |-> IF r.err = "" THEN "ok" ELSE "failed", cls |-> cls,
                    style |-> registry[class_id].style, kwargs |-> kwargs,
                    err |-> r.err, attrs |-> r.attrs, uid |-> gen_uuid]
    /\ nextid' = gen_uuid
    /\ xret' = NoCall
    /\ UNCHANGED <<registry, lastreg, found>>
    /\ UNCHANGED <<transforms, ordering, wrappervars, ret, guivars>>

\* chain.addtransform(inst): a Transform instance is callable; the chain is not
\* applied while it holds instances
AddInst(c) ==
    /\ inst.state = "ok"
    /\ nextid' = gen_uuid
    /\ transforms' = [transforms EXCEPT ![c] = SetKey(@, gen_uuid, "instance")]
    /\ ordering' = [ordering EXCEPT ![c] = Append(@, gen_uuid)]
    /\ ret' = [Ret("addtransform", c, Val(gen_uuid))
                 EXCEPT !.arg = inst.uid, !.given = "instance",
                        !.xf = transforms'[c][gen_uuid]]
    /\ UNCHANGED <<wrappervars, xfvars, guivars>>

\* inst(data, **kwargs)
CallInst(data, kwargs) ==
    /\ inst.state = "ok"
    /\ xret' = [called |-> TRUE, data |-> data, kwargs |-> kwargs,
                res |-> XfCall(inst.cls, inst.attrs, data, kwargs)]
    /\ UNCHANGED <<registry, inst, lastreg, found>>
    /\ UNCHANGED <<chainvars, wrappervars, ret, guivars>>

\* ---------------------------------------------------------------- MainWindow
\* the flights of the project, by uid, and the items of the project tree: the
\* flights themselves and one data file (DataSource) per flight
Flights == 1..MaxFlights
TreeItems == [kind : {"Flight", "DataSource"}, flight : Flights]
NoItem == [kind |-> "", flight |-> 0]
\* a slot that ran: which, the item it was given, and the flight uid of the tab
\* whose data_deleted(item) it called (0: it called none)
NoEvent == [op |-> "", item |-> NoItem, called |-> 0]

\* _launch_tab(index), the slot of a double click on a tree item
LaunchTab(item) ==
    /\ IF item.kind # "Flight" THEN UNCHANGED <<open_tabs, current>>
       ELSE IF item.flight \in open_tabs
       THEN current' = item.flight /\ UNCHANGED open_tabs
       ELSE open_tabs' = open_tabs \cup {item.flight} /\ current' = item.flight
    /\ gevent' = [op |-> "launch_tab", item |-> item, called |-> 0]
    /\ UNCHANGED <<enginevars, plotvars>>

\* _tab_closed(index) for the tab of flight f; the tab widget makes one of the
\* remaining tabs the current one
TabClosed(f) ==
    /\ f \in open_tabs
    /\ open_tabs' = open_tabs \ {f}
    /\ current' \in IF current # f THEN {current}
                    ELSE IF open_tabs' = {} THEN {0} ELSE open_tabs'
    /\ gevent' = [op |-> "tab_closed", item |-> [kind |-> "Flight", flight |-> f],
                  called |-> 0]
    /\ UNCHANGED <<enginevars, plotvars>>

\* _project_item_removed(item), the slot of ProjectTreeView.item_removed:
\* `if not flt.uid not in self._open_tabs: return` returns when the flight HAS a
\* tab; otherwise _open_tabs.get gives None and the slot returns as well
ProjectItemRemoved(item) ==
    /\ gevent' = [op |-> "item_removed", item |-> item,
                  called |-> IF item.kind # "DataSource" THEN 0
                             ELSE IF item.flight \in open_tabs THEN 0
                             ELSE IF item.flight \notin open_tabs THEN 0
                             ELSE item.flight]
    /\ UNCHANGED <<open_tabs, current>>
    /\ UNCHANGED <<enginevars, plotvars>>

\* ---------------------------------------------------------------- PqtLineSelectPlot
Groups == 1..MaxGroups
Rows == 1..PlotRows
Regions == 0..MaxRegion
\* the spans of time that pass between two events
Elapses == {50, 100}
\* a LinearFlightRegion: its group and the plot it is on
Lfrs == [group : Groups, row : Rows]
NoLfr == [group |-> 0, row |-> 0]
LineUpdate(kind, group, region) == [kind |-> kind, group |-> group, region |-> region]
NoLineUpdate == LineUpdate("", 0, 0)

\* the part of the plot's state that update reads and writes
PlotState == [updating |-> updating, line_update |-> line_update, timer |-> timer,
              sel |-> selections]

\* a start that leaves a running timer alone
StartTimerIfIdle(t) == IF t >= 0 THEN t ELSE 0

\* QTimer.start(): starts the timer, or stops and restarts it when it is running
StartTimer(t) == 0

\* update(item), and its loop over the group of item from entry i on:
\* setRegion on a sibling whose region differs raises sigRegionChanged, whose
\* slot is update again, called while the outer update is executing
RECURSIVE update(_, _)
RECURSIVE UpdateGroup(_, _, _, _)
update(st, item) ==
    IF st.updating THEN st
    ELSE LET started == [st EXCEPT !.timer = StartTimer(@), !.updating = TRUE,
                                   !.line_update = item]
             new_region == started.sel[item.group][item.row]
         IN  [UpdateGroup(started, item, new_region, 1) EXCEPT !.updating = FALSE]

UpdateGroup(st, item, new_region, i) ==
    IF i > PlotRows THEN st
    ELSE IF i = item.row THEN UpdateGroup(st, item, new_region, i + 1)
    ELSE LET lri == [group |-> item.group, row |-> i]
             set == [st EXCEPT !.sel[item.group][i] = new_region]
         IN  UpdateGroup(IF st.sel[item.group][i] # new_region THEN update(set, lri)
                         ELSE set,
                         item, new_region, i + 1)

\* add_linked_selection(start, stop): a new group with a region on every plot
AddLinkedSelection(g, r) ==
    /\ g \notin DOMAIN selections
    /\ selections' = SetKey(selections, g, [i \in Rows |-> r])
    /\ lastemit' = LineUpdate("add", g, r)
    /\ UNCHANGED <<updating, line_update, timer, since, emits, lastupd>>
    /\ UNCHANGED <<enginevars, mainvars>>

\* the user moves an item to region r: sigRegionChanged calls update(item)
RegionChanged(item, r) ==
    /\ item.group \in DOMAIN selections
    /\ selections[item.group][item.row] # r
    /\ LET moved == [PlotState EXCEPT !.sel[item.group][item.row] = r]
           st == update(moved, item)
       IN  /\ selections' = st.sel
           /\ updating' = st.updating
           /\ line_update' = st.line_update
           /\ timer' = st.timer
    /\ since' = 0
    /\ emits' = 0
    /\ lastupd' = [item |-> item, region |-> r]
    /\ UNCHANGED lastemit
    /\ UNCHANGED <<enginevars, mainvars>>

\* e ms pass without an event; a timeout that is due is delivered first
Tick(e) ==
    /\ IF timer >= 0 THEN timer < IntervalMs ELSE since < IntervalMs
    /\ timer' = IF timer < 0 THEN timer
                ELSE IF timer + e > IntervalMs THEN IntervalMs ELSE timer + e
    /\ since' = IF since + e > IntervalMs THEN IntervalMs ELSE since + e
    /\ UNCHANGED <<selections, updating, line_update, emits, lastemit, lastupd>>
    /\ UNCHANGED <<enginevars, mainvars>>

\* _update_done, the slot of the timer's timeout
UpdateDone ==
    /\ timer = IntervalMs
    /\ timer' = -1
    /\ lastemit' = LineUpdate("modify", line_update.group,
                              selections[line_update.group][line_update.row])
    /\ emits' = emits + 1
    /\ line_update' = NoLfr
    /\ UNCHANGED <<selections, updating, since, lastupd>>
    /\ UNCHANGED <<enginevars, mainvars>>

\* ---------------------------------------------------------------- specification
Init ==
    /\ nextid = 0
    /\ transforms = [c \in ChainIds |-> << >>]
    /\ ordering = [c \in ChainIds |-> << >>]
    /\ df \in Tables
    /\ modified = << >>
    /\ chains = {}
    /\ defaultchain = 0
    /\ first = 0
    /\ lastres = [c \in ChainIds |-> NoneRes]
    /\ removed = FALSE
    /\ ret = Ret("init", 0, NoneRes)
    /\ registry = << >>
    /\ inst = NoInst
    /\ xret = NoCall
    /\ lastreg = << >>
    /\ found = [name |-> "", res |-> NotFound]
    /\ open_tabs = {}
    /\ current = 0
    /\ gevent = NoEvent
    /\ selections = << >>
    /\ updating = FALSE
    /\ line_update = NoLfr
    /\ timer = -1
    /\ since = IntervalMs
    /\ emits = 0
    /\ lastemit = NoLineUpdate
    /\ lastupd = [item |-> NoLfr, region |-> 0]

\* a chain or a transform on its own: the wrapper stays as constructed, over one table
InitChain == Init /\ df = 1

\* the position maps offered to reorder
PositionMaps == UNION {[S -> Positions] : S \in SUBSET TransformIds}
WrapperPositionMaps(c) ==
    UNION {[S -> WrapperPositions] : S \in SUBSET (DOMAIN transforms[c])}

\* a chain on its own, under every call of its interface
NextChain ==
    \/ \E k \in Callables \cup {NotCallable} :
          nextid < MaxIds /\ Len(ordering[1]) < MaxLen /\ AddTransform(1, k)
    \/ \E uid \in TransformIds : RemoveTransform(1, uid)
    \/ \E m \in PositionMaps : Reorder(1, m)
    \/ \E t \in Tables, b \in Biases : Apply(1, t, b)

SpecChain == InitChain /\ [][NextChain]_vars

\* a wrapper and the chains its caller builds, changes and applies
Next ==
    \/ \E c \in ChainIds, k \in Callables \cup {NotCallable} :
          nextid < MaxIssued /\ Len(ordering[c]) < MaxChainLen /\ AddTransform(c, k)
    \/ \E c \in ChainIds, uid \in 1..MaxIssued : RemoveTransform(c, uid)
    \/ \E c \in ChainIds : \E m \in WrapperPositionMaps(c) : Reorder(c, m)
    \/ \E c \in ChainIds : ApplyChain(c)
    \/ ApplyChainNoChain
    \/ \E uid \in ChainIds \cup {0} : RemoveChain(uid)
    \/ ReadData
    \/ ReadDataReapply

Spec == Init /\ [][Next]_vars

\* the classes a module may define and register
ClassIds == {"xf"}
\* the ids looked up: the registered one and one no decorator was given
LookupIds == ClassIds \cup {"unregistered"}
Subclasses ==
    {TransformSubclass(d, v, p, k) :
        d \in {TRUE}, v \in ParamSeqs, p \in ParamSeqs, k \in BOOLEAN}
    \cup {TransformSubclass(FALSE, << >>, p, k) : p \in ParamSeqs, k \in BOOLEAN}
CallDicts == UNION {[S -> CallValues] : S \in SUBSET Names}

\* transforms: the decorators run when the module is imported, instances are
\* built and called after that
NextXf ==
    \/ \E id \in ClassIds, p \in ParamSeqs : inst = NoInst /\ RegisterFunction(id, p)
    \/ \E id \in ClassIds, cls \in Subclasses : inst = NoInst /\ RegisterClass(id, cls)
    \/ \E id \in ClassIds, kw \in KwSeqs(BoundValues) :
          nextid < MaxConstructed /\ Construct(id, kw)
    \/ \E t \in Tables, kw \in CallDicts : CallInst(t, kw)

SpecXf == InitChain /\ [][NextXf]_vars

\* the registry on its own: decorators of either style run, in any order and
\* again for the same id, and ids are looked up in between
RegistryClasses == {TransformSubclass(TRUE, p, p, k) : p \in ParamSeqs, k \in BOOLEAN}
NextRegistry ==
    \/ \E id \in ClassIds, p \in ParamSeqs : RegisterFunction(id, p)
    \/ \E id \in ClassIds, cls \in RegistryClasses : RegisterClass(id, cls)
    \/ \E id \in LookupIds : Lookup(id)

SpecRegistry == InitChain /\ [][NextRegistry]_vars

\* the main window: tabs are opened and closed, items are removed from the tree
NextMain ==
    \/ \E item \in TreeItems : LaunchTab(item)
    \/ \E f \in Flights : TabClosed(f)
    \/ \E item \in TreeItems : ProjectItemRemoved(item)

SpecMain == InitChain /\ [][NextMain]_vars

\* the line selection plot: regions are added and moved while time passes
NextPlot ==
    \/ \E g \in Groups, r \in Regions : AddLinkedSelection(g, r)
    \/ \E item \in Lfrs, r \in Regions : RegionChanged(item, r)
    \/ \E e \in Elapses : Tick(e)
    \/ UpdateDone

SpecPlot == InitChain /\ [][NextPlot]_vars

\* instances as members of a chain: classes are registered, instances built of
\* them and added to the chain
NextXfChain ==
    \/ \E id \in ClassIds, p \in ParamSeqs : inst = NoInst /\ RegisterFunction(id, p)
    \/ \E id \in ClassIds, kw \in KwSeqs(BoundValues) :
          nextid < MaxIds /\ Construct(id, kw)
    \/ \E k \in Callables :
          nextid < MaxIds /\ Len(ordering[1]) < MaxLen /\ AddTransform(1, k)
    \/ nextid < MaxIds /\ Len(ordering[1]) < MaxLen /\ AddInst(1)

SpecXfChain == InitChain /\ [][NextXfChain]_vars

\* ---------------------------------------------------------------- claims
\* C1: when chain C was the first chain applied, then right after
\* removechain(C.uid) has removed it, reading data returns the original table.
C1_DataAfterRemovingFirstChain ==
    (ret.op = "removechain" /\ ret.res = NoneRes /\ first # 0 /\ ret.chain = first)
        => Data = Val(df)

\* C2: as long as removechain was never called, data returns the original
\* table if applychain was never called, and otherwise the result applychain
\* computed last for the first chain ever applied.
C2_DataIsDefaultChainResult ==
    ~removed => Data = IF first = 0 THEN Val(df) ELSE lastres[first]

\* C3: applychain with an argument that is no TransformChain fails with a
\* type error.
C3_ApplyChainTypeError ==
    (ret.op = "applychain" /\ ret.chain = 0) => ret.res = Err("TypeError")

\* C4: for a function registered through createtransformclass, the instance
\* lookup(name)(**overrides) called with data returns what the function returns
\* when called with its defaults overridden by `overrides`.
C4_FunctionPathPassesBoundValues ==
    ( /\ inst.state # "none"
      /\ inst.style = "function"
      /\ SeqNames(inst.kwargs) \subseteq SeqNames(inst.cls.params) )
    => /\ inst.state = "ok"
       /\ (xret.called /\ xret.kwargs = NoAttrs)
            => xret.res = CallFunc(inst.cls.params, xret.data, KwDict(inst.kwargs))

\* C5: after construction every keyword that names a declared variable is bound
\* to the keyword's value, and every other declared variable to its default,
\* or to None when it has none.
C5_KeywordsBindDeclaredVariables ==
    inst.state = "ok" =>
        \A i \in DOMAIN inst.cls.var_list :
            LET var == inst.cls.var_list[i]
            IN  GetAttr(inst.attrs, var.name) =
                    IF var.name \in SeqNames(inst.kwargs) THEN KwDict(inst.kwargs)[var.name]
                    ELSE IF var.dflt = NoDefault THEN None
                    ELSE var.dflt

\* C6: calling an instance of a Transform subclass calls its function with the
\* data and with the bound values of those declared variables that the function
\* declares as parameters, overridden by the keywords of the call.
C6_CallKeywordsAreDeclaredParameters ==
    (inst.state = "ok" /\ inst.style = "class" /\ xret.called) =>
        LET bound == SeqNames(inst.cls.var_list) \cap SeqNames(inst.cls.params)
            keywords == [n \in bound \cup DOMAIN xret.kwargs |->
                            IF n \in DOMAIN xret.kwargs THEN xret.kwargs[n]
                            ELSE inst.attrs[n]]
        IN  xret.res = CallFunc(inst.cls.params, xret.data, keywords)

\* C7: a transform registered from a function and a Transform subclass with the
\* same variable list and the same function bind the same variables when built
\* with the same keywords, and return the same when called with the same
\* arguments, whichever way the subclass's function takes its parameters.
C7_RegistrationStylesAgree ==
    (inst.state # "none" /\ inst.style = "function") =>
        \A kwonly \in BOOLEAN :
            LET cls == TransformSubclass(TRUE, inst.cls.params, inst.cls.params, kwonly)
                built == XfInit(cls, inst.kwargs)
            IN  /\ built.err = inst.err
                /\ built.attrs = inst.attrs
                /\ xret.called =>
                     XfCall(cls, built.attrs, xret.data, xret.kwargs) = xret.res

\* C8: in every state of a chain, also after calls that failed, the order
\* sequence holds exactly the ids of the mapping, each once, so that len(chain)
\* is the length of the order sequence.
C8_OrderingIsPermutationOfKeys ==
    \A c \in ChainIds :
        /\ Range(ordering[c]) = DOMAIN transforms[c]
        /\ \A i, j \in DOMAIN ordering[c] : ordering[c][i] = ordering[c][j] => i = j
        /\ ChainLen(c) = Len(ordering[c])

\* a reorder that failed on an unknown id after it had moved an id of the
\* chain to the front
C8_Witness ==
    /\ ret.op = "reorder"
    /\ ret.res = Err("ValueError")
    /\ Len(ordering[1]) = 2
    /\ ordering[1][1] > ordering[1][2]
    /\ \E k \in DOMAIN ret.map :
          /\ k \notin DOMAIN transforms[1]
          /\ ordering[1][1] \in DOMAIN ret.map
          /\ ret.map[ordering[1][1]] = 0
          /\ ret.map[k] > 0

\* the first n transforms of the order, composed from the last one inwards
RECURSIVE Composed(_, _, _, _, _)
Composed(xf, ord, n, table, bias) ==
    IF n = 0 THEN Val(table)
    ELSE LET inner == Composed(xf, ord, n - 1, table, bias)
         IN  IF inner.err # "" THEN inner
             ELSE CallTransform(xf[ord[n]], inner.val, bias)

\* C9: apply returns the table fed through the transforms in the chain's current
\* order, each output the next input, every transform given the same extra
\* keyword; T2(T1(table)) for the order [T1, T2], the table for an empty chain.
C9_ApplyComposesInOrder ==
    ret.op = "apply" =>
        LET c == ret.chain
            xf == transforms[c]
            ord == ordering[c]
        IN  /\ ret.res = Composed(xf, ord, Len(ord), ret.arg, ret.bias)
            /\ Len(ord) = 0 => ret.res = Val(ret.arg)
            /\ (Len(ord) = 2 /\ CallTransform(xf[ord[1]], ret.arg, ret.bias).err = "")
                 => ret.res = CallTransform(xf[ord[2]],
                                  CallTransform(xf[ord[1]], ret.arg, ret.bias).val,
                                  ret.bias)

\* apply on a chain of three whose order is not the order they were added in,
\* with the extra keyword given
C9_Witness ==
    /\ ret.op = "apply"
    /\ ret.res.err = ""
    /\ ret.bias = 1
    /\ Len(ordering[ret.chain]) = 3
    /\ ordering[ret.chain][1] > ordering[ret.chain][3]
    /\ transforms[ret.chain][ordering[ret.chain][1]] # transforms[ret.chain][ordering[ret.chain][3]]

\* m gives every id of the order a position of its own in 0..n-1
IsFullMap(m, ord) ==
    /\ DOMAIN m = Range(ord)
    /\ \A k \in DOMAIN m : m[k] \in 0..(Len(ord) - 1)
    /\ \A k, h \in DOMAIN m : m[k] = m[h] => k = h

\* the transforms run by target position: position p first, then p + 1, ...
RECURSIVE RunByPosition(_, _, _, _)
RunByPosition(xf, m, p, table) ==
    IF p >= Cardinality(DOMAIN m) THEN Val(table)
    ELSE LET uid == CHOOSE k \in DOMAIN m : m[k] = p
             r == CallTransform(xf[uid], table, 0)
         IN  IF r.err # "" THEN r ELSE RunByPosition(xf, m, p + 1, r.val)

\* C10: reorder(m) with m a map of every id of the chain to a position of its own
\* in 0..n-1 leaves each id at index m[id], returns that order, and apply then
\* runs the transforms in it.
C10_ReorderFullMap ==
    (ret.op = "reorder" /\ IsFullMap(ret.map, ordering[ret.chain])) =>
        /\ ret.res.err = ""
        /\ \A k \in DOMAIN ret.map : ordering[ret.chain][ret.map[k] + 1] = k
        /\ ret.order = ordering[ret.chain]
        /\ \A t \in Tables :
              ChainApply(ret.chain, t, 0) =
                  RunByPosition(transforms[ret.chain], ret.map, 0, t)

\* a full map has rotated a chain of three transforms that do not commute
C10_Witness ==
    /\ ret.op = "reorder"
    /\ IsFullMap(ret.map, ordering[1])
    /\ Len(ordering[1]) = 3
    /\ ordering[1][1] > ordering[1][2]
    /\ {transforms[1][k] : k \in DOMAIN transforms[1]} = {"scale", "offset"}

\* m gives some ids of the order a position each in 0..n-1, no position twice
IsPartialMap(m, ord) ==
    /\ DOMAIN m # {}
    /\ DOMAIN m \subseteq Range(ord)
    /\ \A k \in DOMAIN m : m[k] \in 0..(Len(ord) - 1)
    /\ \A k, h \in DOMAIN m : m[k] = m[h] => k = h

\* C11: reorder(m) with m a map of some of the chain's ids to positions of their
\* own in 0..n-1 leaves every id of m at index m[id] of the resulting order.
C11_ReorderPartialMap ==
    (ret.op = "reorder" /\ IsPartialMap(ret.map, ordering[ret.chain])) =>
        /\ ret.res.err = ""
        /\ \A k \in DOMAIN ret.map : ordering[ret.chain][ret.map[k] + 1] = k

\* two ids of m share a target position
HasDuplicatePositions(m) == \E k, h \in DOMAIN m : k # h /\ m[k] = m[h]

\* the greatest target position of m
TopPosition(m) == CHOOSE p \in Range([k \in DOMAIN m |-> m[k]]) :
                      \A k \in DOMAIN m : m[k] <= p

\* C12: reorder with a map of the chain's ids in which two or more ids share a
\* target position does not fail: it returns the chain's order, and that order
\* has one of the ids given the greatest position at that index (at the end when
\* the position is past the end).
C12_ReorderDuplicatePositions ==
    (/\ ret.op = "reorder"
     /\ HasDuplicatePositions(ret.map)
     /\ DOMAIN ret.map \subseteq Range(ordering[ret.chain])) =>
        LET ord == ordering[ret.chain]
            top == TopPosition(ret.map)
            at  == IF top < Len(ord) THEN top + 1 ELSE Len(ord)
        IN  /\ ret.res.err = ""
            /\ ret.order = ord
            /\ ord[at] \in {k \in DOMAIN ret.map : ret.map[k] = top}

C12_Witness ==
    /\ ret.op = "reorder"
    /\ ret.res.err = ""
    /\ DOMAIN ret.map = Range(ordering[1])
    /\ Len(ordering[1]) = 3
    /\ \E k, h \in DOMAIN ret.map : k # h /\ ret.map[k] = 0 /\ ret.map[h] = 0
    /\ ordering[1] # <<1, 2, 3>>

\* C13: applychain(C) returns C applied to the wrapper's original table in C's
\* current order, whatever applychain and removechain calls came before and
\* whatever other chains have cached, and that value is C's cache entry afterwards.
C13_ApplyChainResult ==
    (ret.op = "applychain" /\ ret.chain # 0) =>
        LET c == ret.chain
            expected == Composed(transforms[c], ordering[c], Len(ordering[c]), df, 0)
        IN  /\ ret.res = expected
            /\ expected.err = "" =>
                  (c \in DOMAIN modified /\ modified[c] = expected.val)

C13_Witness ==
    /\ ret.op = "applychain"
    /\ ret.res.err = ""
    /\ ret.res.val # df
    /\ removed
    /\ DOMAIN modified = ChainIds
    /\ modified[1] # modified[2]
    /\ lastres[ret.chain] = ret.res

\* C14: once the first applychain has set the default chain, every later call
\* leaves the default chain as it is, so the default is the chain of the first
\* applychain in every state after it and no second chain is ever the default.
C14_DefaultChainIsStable ==
    [][/\ defaultchain # 0 => defaultchain' = defaultchain
       /\ first' # 0 => defaultchain' = first']_vars

C14_Witness ==
    /\ ret.op = "applychain"
    /\ ret.chain = 1
    /\ defaultchain = 2
    /\ first = 2
    /\ removed
    /\ chains = {1}

\* C15: removechain(id) for a registered chain leaves neither its registration
\* nor its cached result and leaves the registration and the cached result of
\* every other chain as they were (it returns normally when the chain has a
\* cached result); for an id that is not registered it raises a lookup error and
\* changes nothing of the wrapper.
C15_RemoveChain ==
    [][ret'.op = "removechain" =>
          LET uid == ret'.chain
          IN  IF uid \in chains
              THEN /\ chains' = chains \ {uid}
                   /\ DOMAIN modified' = DOMAIN modified \ {uid}
                   /\ \A c \in DOMAIN modified' : modified'[c] = modified[c]
                   /\ uid \in DOMAIN modified => ret'.res = NoneRes
              ELSE /\ ret'.res = Err("KeyError")
                   /\ chains' = chains
                   /\ modified' = modified
                   /\ defaultchain' = defaultchain
                   /\ df' = df]_vars

C15_Witness ==
    /\ ret.op = "removechain"
    /\ ret.res = NoneRes
    /\ ret.chain = 1
    /\ chains = {2}
    /\ DOMAIN modified = {2}
    /\ lastres[1].err = ""
    /\ modified[2] = lastres[2].val

\* the cached result of chain c, if it has one
CacheEntry(c) == IF c \in DOMAIN modified THEN Val(modified[c]) ELSE NoneRes

\* C16: a chain's cached result changes only in an applychain or a removechain
\* call for that chain; addtransform, removetransform and reorder on a chain
\* change no cached result and not what `data` returns.
C16_CacheChangesOnlyOnRequest ==
    [][/\ \A c \in ChainIds :
             CacheEntry(c)' # CacheEntry(c) =>
                 (ret'.op \in {"applychain", "removechain"} /\ ret'.chain = c)
       /\ ret'.op \in {"addtransform", "removetransform", "reorder"} =>
             (modified' = modified /\ Data' = Data)]_vars

C16_Witness ==
    /\ ret.op \in {"addtransform", "removetransform", "reorder"}
    /\ ret.res.err = ""
    /\ ret.chain = defaultchain
    /\ defaultchain \in DOMAIN modified
    /\ Data = lastres[defaultchain]
    /\ ChainApply(defaultchain, df, 0) # Data

\* C17: when a default chain exists and `data` is read with forced recomputation
\* requested, the default chain is applied to the original table again, the
\* fresh result is returned and it is the chain's cache entry afterwards.
C17_DataForcedRecomputation ==
    (ret.op = "data" /\ ret.arg = 1 /\ defaultchain # 0) =>
        LET fresh == ChainApply(defaultchain, df, 0)
        IN  /\ ret.res = fresh
            /\ fresh.err = "" =>
                  (defaultchain \in DOMAIN modified
                       /\ modified[defaultchain] = fresh.val)

\* C18: apply never changes the table it is given: after apply has returned or
\* raised the table has the content it had before, also when transforms of the
\* chain change their argument in place.
C18_ApplyKeepsInput ==
    ret.op = "apply" => ret.after = ret.arg

C18_Witness ==
    /\ ret.op = "apply"
    /\ ret.res.err = ""
    /\ ret.res.val # ret.arg
    /\ Len(ordering[1]) >= 2
    /\ \A i \in 1..Len(ordering[1]) : transforms[1][ordering[1][i]] \in InPlace
    /\ ret.after = ret.arg

\* C19: the original table of a DataWrapper is the same in every state: no
\* applychain, removechain or `data` read changes it.
C19_OriginalTableUnchanged ==
    [][df' = df]_vars

C19_Witness ==
    /\ ret.op = "data"
    /\ removed
    /\ ret.res.err = ""
    /\ ret.res.val # df
    /\ defaultchain \in chains
    /\ Len(ordering[defaultchain]) >= 1
    /\ transforms[defaultchain][ordering[defaultchain][1]] \in InPlace
    /\ lastres[defaultchain] = ret.res

\* C20: addtransform(t) with a callable t takes an id the chain does not hold,
\* adds id -> t to the mapping, appends the id to the order sequence, whose
\* earlier entries stay where they were, and returns (id, t); with an argument
\* that is not callable it returns None, raises nothing and leaves the mapping
\* and the order sequence as they were.
C20_AddTransform ==
    [][ret'.op = "addtransform" =>
          LET c == ret'.chain
              t == ret'.given
              id == ret'.res.val
          IN  IF t \in Callables
              THEN /\ ret'.res.err = ""
                   /\ id \notin DOMAIN transforms[c]
                   /\ id \notin Range(ordering[c])
                   /\ transforms' = [transforms EXCEPT ![c] = SetKey(@, id, t)]
                   /\ ordering' = [ordering EXCEPT ![c] = Append(@, id)]
                   /\ ret'.xf = t
              ELSE /\ ret'.res = NoneRes
                   /\ transforms' = transforms
                   /\ ordering' = ordering]_vars

C20_Witness ==
    /\ ret.op = "addtransform"
    /\ ret.res.err = ""
    /\ ret.xf = ret.given
    /\ Len(ordering[1]) = 3
    /\ ordering[1][3] = ret.res.val
    /\ ordering[1][1] > ordering[1][2]

\* the entries of s other than x, in the order s has them
Without(s, x) == SelectSeq(s, LAMBDA y : y # x)

\* C21: removetransform(id) for an id of the chain takes it out of the mapping
\* and out of the order sequence, the other ids keeping their relative order;
\* for an id the chain does not hold it raises a lookup error and leaves the
\* mapping and the order sequence as they were.
C21_RemoveTransform ==
    [][ret'.op = "removetransform" =>
          LET c == ret'.chain
              uid == ret'.arg
          IN  IF uid \in DOMAIN transforms[c]
              THEN /\ ret'.res = NoneRes
                   /\ DOMAIN transforms'[c] = DOMAIN transforms[c] \ {uid}
                   /\ \A k \in DOMAIN transforms'[c] :
                          transforms'[c][k] = transforms[c][k]
                   /\ ordering'[c] = Without(ordering[c], uid)
                   /\ uid \notin Range(ordering'[c])
              ELSE /\ ret'.res = Err("KeyError")
                   /\ transforms' = transforms
                   /\ ordering' = ordering]_vars

C21_Witness ==
    /\ ret.op = "removetransform"
    /\ ret.res = NoneRes
    /\ ret.arg < nextid
    /\ Len(ordering[1]) = 2
    /\ ordering[1][1] > ordering[1][2]
    /\ ret.arg \notin DOMAIN transforms[1]

\* C22: every id addtransform returns differs from every id issued before it, the
\* ids of transforms removed since included: a removed id is never handed out
\* again, and the chain holds only ids that were issued.
C22_IdsNeverReused ==
    [][/\ (ret'.op = "addtransform" /\ ret'.res.err = "") =>
             (/\ ret'.res.val \notin 1..nextid
              /\ ret'.res.val \in DOMAIN transforms'[ret'.chain])
       /\ \A c \in ChainIds : DOMAIN transforms'[c] \subseteq 1..nextid']_vars

C22_Witness ==
    /\ ret.op = "addtransform"
    /\ ret.res.err = ""
    /\ ret.res.val = MaxIds
    /\ ChainLen(1) = 1
    /\ ordering[1] = <<MaxIds>>

\* C23: a transform instance is a member of a chain under the id it received at
\* construction: the id addtransform(t) returns, under which t is in the chain
\* and which removetransform and reorder accept, is t's own uid.
C23_MembershipByOwnUid ==
    (ret.op = "addtransform" /\ ret.given = "instance" /\ ret.res.err = "") =>
        ret.res.val = ret.arg

\* C24: get_class_from_id(name) returns the class that was registered under the
\* name last, by a function decorator or a class decorator, and None for a name
\* no decorator was given; registering a name again replaces the entry and
\* raises nothing.
LastRegistered(name) ==
    IF name \in DOMAIN lastreg THEN [found |-> TRUE, cls |-> lastreg[name]]
    ELSE NotFound

C24_LookupReturnsLastRegistered ==
    [][/\ found' # found => found'.res = LastRegistered(found'.name)
       /\ \A name \in LookupIds : get_class_from_id(name)' = LastRegistered(name)'
       /\ DOMAIN registry' = DOMAIN lastreg']_vars

C24_Witness ==
    /\ found.name \in ClassIds
    /\ found.res.found
    /\ registry[found.name].style = "function"
    /\ found.res.cls = registry[found.name].cls
    /\ found.res.cls.var_list # << >>

\* C25: constructing a transform of a class that declares no variable list
\* raises the configuration error (ValueError), whatever keywords are given;
\* constructing one of a class that declares a variable list, an empty one
\* included, does not raise that error.
C25_VarListConfigurationError ==
    inst.state # "none" =>
        IF inst.cls.declared
        THEN inst.err # "ValueError"
        ELSE inst.state = "failed" /\ inst.err = "ValueError"

C25_Witness ==
    /\ inst.state = "failed"
    /\ inst.err = "ValueError"
    /\ ~inst.cls.declared
    /\ inst.kwargs # << >>
    /\ inst.uid # 0

\* C26: in every state of a DataWrapper the registered chain ids are the ids
\* that have a cached result, also after an applychain in which a transform
\* raised; so a default chain that is registered has a cached result.
C26_RegisteredIffCached ==
    /\ chains = DOMAIN modified
    /\ defaultchain \in chains => defaultchain \in DOMAIN modified

\* C27: reorder is all-or-nothing: when the position map (no position given
\* twice) names an id that is not in the chain, reorder fails and the order
\* sequence is what it was before the call.
C27_ReorderAllOrNothing ==
    [][(/\ ret'.op = "reorder"
        /\ ~HasDuplicatePositions(ret'.map)
        /\ \E k \in DOMAIN ret'.map : k \notin Range(ordering[ret'.chain])) =>
           (ret'.res.err # "" /\ ordering' = ordering)]_vars

\* C28: once the default chain has been removed, applying another chain, new or
\* registered, does not make that chain the default and does not make `data`
\* succeed: `data` raises as long as the default chain is not registered, and it
\* returns a result again only through an applychain of the default chain
\* itself, whose result it then returns.
C28_RemovedDefaultChain ==
    [][/\ defaultchain # 0 => defaultchain' = defaultchain
       /\ (defaultchain' # 0 /\ defaultchain' \notin chains') => Data'.err = "KeyError"
       /\ (defaultchain # 0 /\ Data.err # "" /\ Data'.err = "") =>
             (/\ ret'.op = "applychain"
              /\ ret'.chain = defaultchain
              /\ Data' = ret'.res)]_vars

C28_Witness ==
    /\ ret.op = "data"
    /\ ret.res = Err("KeyError")
    /\ defaultchain = 1
    /\ chains = {2}
    /\ DOMAIN modified = {2}
    /\ lastres[1].err = ""

\* C30: when a DataSource item is removed from the project tree and its flight
\* has an open tab, _project_item_removed calls that tab's data_deleted(item);
\* when the flight has no open tab, or the item is no DataSource, it calls no tab.
C30_ItemRemovedReachesOpenTab ==
    gevent.op = "item_removed" =>
        gevent.called = IF gevent.item.kind = "DataSource"
                           /\ gevent.item.flight \in open_tabs
                        THEN gevent.item.flight ELSE 0

\* C29: in a burst of update(item) calls less than the timer interval apart no
\* 'modify' LineUpdate is emitted; one is emitted when the interval has passed
\* since the last call, with the group and the region of the item passed last,
\* and no second one follows without a new call. The update calls raised by
\* setting the sibling regions change nothing of this, and _updating is false
\* whenever update is not executing.
C29_LineUpdateDebounce ==
    [][/\ updating' = FALSE
       /\ emits' # emits /\ emits' # 0 =>
             (/\ since = IntervalMs
              /\ emits = 0
              /\ lastemit' = LineUpdate("modify", lastupd.item.group, lastupd.region))
       /\ lastemit' # lastemit /\ lastemit'.kind = "modify" => emits' = emits + 1
       /\ timer' >= 0 <=> (lastupd'.item # NoLfr /\ emits' = 0)
       /\ timer' >= 0 => (line_update' = lastupd'.item /\ timer' = since')
       /\ lastupd'.item # NoLfr =>
             \A i \in Rows : selections'[lastupd'.item.group][i] = lastupd'.region]_vars

C29_Witness ==
    /\ lastemit = LineUpdate("modify", lastupd.item.group, lastupd.region)
    /\ emits = 1
    /\ timer = -1
    /\ lastupd.item.row = PlotRows
    /\ DOMAIN selections = Groups
    /\ \E g \in Groups : selections[g][1] # lastupd.region

====
